---- MODULE Spec2Model ----
(***************************************************************************)
(* The real-time charting engine of the ProfessionalChart component        *)
(* (components/charts/ProfessionalChart.tsx, src/unnamed/part_012):        *)
(* historical fetch, live tick aggregation into candles, the displayed     *)
(* series, the feed sockets and the drawing tools.                         *)
(*                                                                         *)
(* Numbers are JavaScript numbers restricted to integers.  A value that    *)
(* may be NaN is carried as a sequence of length at most one: <<>> is NaN  *)
(* and <<n>> is the number n.                                              *)
(***************************************************************************)
EXTENDS Integers, Sequences, FiniteSets, TLC

VARIABLES
    mounted,       \* whether the component is mounted
    symbol,        \* prop symbol of ProfessionalChart (state of ForgePage)
    interval,      \* useState('1h'): the timeframe token, a sequence of characters
    chartType,     \* useState('candle')
    isLoading,     \* useState(true)
    currentPrice,  \* useState(null); <<>> is null
    chartDataRef,  \* chartDataRef.current: the candle series
    inflight,      \* fetchData calls awaiting their response
    reqSeq,        \* number of fetchData calls issued so far
    seriesReq,     \* the fetchData call whose response chartDataRef was assigned from
    seriesRaw,     \* data.candles of that response, as received
    sockets,       \* WebSockets that are not closed, with the closure of their onmessage
    wsRef,         \* wsRef.current: id of the socket created last
    sockSeq,       \* number of sockets created so far
    seriesRefs,    \* candlestickSeriesRef / areaSeriesRef and the chart's main series
    mainData,      \* points held by the main series
    volumeData,    \* points held by the volume histogram series
    maData,        \* points held by the ma20 / ma50 / ma200 line series
    chartColors,   \* useState({upColor, downColor, bg, grid})
    activeTool,    \* useState('cursor')
    activeToolRef, \* activeToolRef.current
    priceLinesRef, \* priceLinesRef.current: the price lines created by clicks
    chartLines,    \* the price lines the chart's series hold, each with its series
    lineSeq,       \* number of price lines created so far
    sinceSelect,   \* number of price lines created since the last tool selection
    fnIn,          \* argument of a function applied on its own
    fnOut,         \* results of the applications, by name
    lastEv,        \* the event handled last, with its inputs
    nEvents        \* number of user actions and feed messages handled so far

\* the drawing tools' part of the state
drawVars == <<chartColors, activeTool, activeToolRef, priceLinesRef, chartLines,
              lineSeq, sinceSelect>>

\* the part used when a function is applied on its own
fnVars == <<fnIn, fnOut>>

\* the component's part of the state
appVars == <<mounted, symbol, interval, chartType, isLoading, currentPrice, chartDataRef,
             inflight, reqSeq, seriesReq, seriesRaw, sockets, wsRef, sockSeq,
             seriesRefs, mainData, volumeData, maData, drawVars, lastEv, nEvents>>

vars == <<appVars, fnVars>>

---------------------------------------------------------------------------
(* Bounds of the model *)

\* user actions (timeframe, symbol, chart type, colours) and feed messages
\* handled in one behaviour
MaxEvents == 3

\* events handled in one behaviour that goes on with the drawing tools (tool
\* selections, clicks, Clear All) after them
MaxDrawEvents == 6

\* length of the lists loadHistory is applied to on its own
MaxList == 3

\* length of the candle sequences the indicators are applied to on their own
MaxSeries == 4

\* largest period the indicators are applied with on their own
MaxCount == 3

\* length of the tokens parseInterval is applied to on its own
MaxToken == 3

---------------------------------------------------------------------------
(* Plain helpers *)

Max(a, b) == IF a >= b THEN a ELSE b
Min(a, b) == IF a <= b THEN a ELSE b
Last(s) == s[Len(s)]
Front(s) == SubSeq(s, 1, Len(s) - 1)

\* the number Infinity, which JSON.parse yields for a literal beyond the
\* double range such as 1e999: greater than every number of the model
Infinity == 2000000000

\* the value of a field a message does not carry (undefined); it stands for
\* null and NaN as well, which are falsy like it
Undefined == -1

\* JavaScript truthiness of a number or undefined: 0, NaN and undefined are falsy
Truthy(x) == x \notin {0, Undefined}

\* a || b on numbers
OrElse(a, b) == IF Truthy(a) THEN a ELSE b

\* JavaScript a % b for b # 0: the remainder takes the sign of the dividend
JsRem(a, b) ==
    LET m == IF b < 0 THEN -b ELSE b
    IN  IF a >= 0 THEN a % m ELSE -((-a) % m)

---------------------------------------------------------------------------
(* Timeframe tokens.  A token is the sequence of its characters; a
   character is the one-character string of a printable ASCII character,
   one of the escapes "\t", "\n", "\f", "\r", or, for any other character,
   the string "U+hhhh" of its code point in four hexadecimal digits
   (U+00A0 is the no-break space, U+00E9 the letter e with acute). *)

Tok1m == <<"1", "m">>
Tok5m == <<"5", "m">>
Tok15m == <<"1", "5", "m">>
Tok1h == <<"1", "h">>
Tok4h == <<"4", "h">>
Tok1d == <<"1", "d">>
Tok1w == <<"1", "w">>

\* values of the toolbar's INTERVALS
INTERVALS == {Tok1m, Tok5m, Tok15m, Tok1h, Tok4h, Tok1d, Tok1w}

\* the timeframes a behaviour of the model switches between
Timeframes == {Tok1h, Tok4h}

\* the symbols a behaviour of the model switches between (SYMBOLS of ForgePage)
Symbols == {"BTC/USDT", "ETH/USDT"}

DigitChars == {"0", "1", "2", "3", "4", "5", "6", "7", "8", "9"}

DigitVal(c) ==
    CASE c = "0" -> 0 [] c = "1" -> 1 [] c = "2" -> 2 [] c = "3" -> 3
      [] c = "4" -> 4 [] c = "5" -> 5 [] c = "6" -> 6 [] c = "7" -> 7
      [] c = "8" -> 8 [] c = "9" -> 9

\* the digits of radix 16 besides the decimal ones
HexLetters == {"a", "b", "c", "d", "e", "f", "A", "B", "C", "D", "E", "F"}

HexVal(c) ==
    CASE c \in DigitChars -> DigitVal(c)
      [] c \in {"a", "A"} -> 10 [] c \in {"b", "B"} -> 11
      [] c \in {"c", "C"} -> 12 [] c \in {"d", "D"} -> 13
      [] c \in {"e", "E"} -> 14 [] c \in {"f", "F"} -> 15

\* the digits of a radix (10 or 16)
RadixChars(radix) == IF radix = 16 THEN DigitChars \cup HexLetters ELSE DigitChars

RECURSIVE ParseDigits(_, _, _, _)
\* value of the digits of s in the radix from position i on, up to the first
\* character that is no digit of the radix
ParseDigits(s, i, acc, radix) ==
    IF i > Len(s) \/ s[i] \notin RadixChars(radix)
    THEN acc
    ELSE ParseDigits(s, i + 1, acc * radix + HexVal(s[i]), radix)

\* the white space parseInt strips (StrWhiteSpaceChar): tab, line feed,
\* vertical tab, form feed, carriage return, space, no-break space, the
\* byte order mark, the line and paragraph separators and the space
\* separators of Unicode
WhiteSpace ==
    {"\t", "\n", "U+000B", "\f", "\r", " ", "U+00A0", "U+1680",
     "U+2000", "U+2001", "U+2002", "U+2003", "U+2004", "U+2005", "U+2006",
     "U+2007", "U+2008", "U+2009", "U+200A", "U+2028", "U+2029", "U+202F",
     "U+205F", "U+3000", "U+FEFF"}

RECURSIVE SkipSpaces(_, _)
SkipSpaces(s, i) ==
    IF i <= Len(s) /\ s[i] \in WhiteSpace THEN SkipSpaces(s, i + 1) ELSE i

\* parseInt(s) without a radix: leading white space, an optional sign, an
\* optional 0x or 0X that selects radix 16, then the digits of the radix;
\* NaN (<<>>) when no digit follows
parseInt(s) ==
    LET i == SkipSpaces(s, 1)
        signed == i <= Len(s) /\ s[i] \in {"-", "+"}
        j == IF signed THEN i + 1 ELSE i
        hex == j + 1 <= Len(s) /\ s[j] = "0" /\ s[j + 1] \in {"x", "X"}
        radix == IF hex THEN 16 ELSE 10
        k == IF hex THEN j + 2 ELSE j
    IN  IF k > Len(s) \/ s[k] \notin RadixChars(radix)
        THEN <<>>
        ELSE IF signed /\ s[i] = "-"
             THEN << -ParseDigits(s, k, 0, radix) >>
             ELSE << ParseDigits(s, k, 0, radix) >>

\* String.prototype.includes for one character
Includes(s, c) == \E i \in 1..Len(s) : s[i] = c

\* num * k where num may be NaN
Times(num, k) == IF num = <<>> THEN <<>> ELSE << num[1] * k >>

\* a resolver with the factors of minute and hour swapped
parseIntervalSwapped(intv) ==
    LET num == parseInt(intv)
    IN  IF Includes(intv, "h") THEN Times(num, 60)
        ELSE IF Includes(intv, "m") THEN Times(num, 3600)
        ELSE IF Includes(intv, "d") THEN Times(num, 86400)
        ELSE IF Includes(intv, "w") THEN Times(num, 604800)
        ELSE << 3600 >>

parseInterval(intv) ==
    LET num == parseInt(intv)
    IN  IF Includes(intv, "m") THEN Times(num, 60)
        ELSE IF Includes(intv, "h") THEN Times(num, 3600)
        ELSE IF Includes(intv, "d") THEN Times(num, 86400)
        ELSE IF Includes(intv, "w") THEN Times(num, 604800)
        ELSE << 3600 >>

---------------------------------------------------------------------------
(* Candles: [time, open, high, low, close, volume].  The time of a candle
   or of a point is held in thousandths of a second: the model's time is the
   code's time multiplied by 1000, whole or not (the code's 1.5 is 1500
   here), so that times stay integers and the division of fetchData is
   exact for every response. *)

Candle(t, o, h, l, c, v) ==
    [time |-> t, open |-> o, high |-> h, low |-> l, close |-> c, volume |-> v]

\* a whole number of seconds as a time of the model
Seconds(n) == n * 1000

\* the .map of fetchData: the response's epoch milliseconds become seconds
\* (c.time / 1000, a fraction when c.time is no multiple of 1000); in
\* thousandths of a second the quotient is c.time itself
ParseCandle(c) ==
    Candle(c.time, c.open, c.high, c.low, c.close, c.volume)

\* one step of the stable sort by (a.time - b.time): c goes behind every
\* candle whose time is not greater
InsertByTime(sorted, c) ==
    LET k == Cardinality({i \in 1..Len(sorted) : sorted[i].time <= c.time})
    IN  SubSeq(sorted, 1, k) \o <<c>> \o SubSeq(sorted, k + 1, Len(sorted))

RECURSIVE SortByTime(_)
SortByTime(s) ==
    IF s = <<>> THEN <<>> ELSE InsertByTime(SortByTime(Front(s)), Last(s))

\* a loader that keeps every candle of a repeated time
DeduplicateNone(s) == s

RECURSIVE Deduplicate(_)
\* the forEach over cleanData with the seen set: the first candle of each
\* time is kept
Deduplicate(s) ==
    IF s = <<>> THEN <<>>
    ELSE LET uniqueData == Deduplicate(Front(s))
             seen == {uniqueData[i].time : i \in 1..Len(uniqueData)}
         IN  IF Last(s).time \notin seen
             THEN Append(uniqueData, Last(s))
             ELSE uniqueData

\* a loader that sorts and keeps every candle
loadHistorySortOnly(candles) ==
    SortByTime([i \in 1..Len(candles) |-> ParseCandle(candles[i])])

\* uniqueData of fetchData for the list data.candles
loadHistory(candles) ==
    Deduplicate(SortByTime([i \in 1..Len(candles) |-> ParseCandle(candles[i])]))

---------------------------------------------------------------------------
(* Indicators *)

\* a + b on numbers that may be Infinity
Plus(a, b) == IF a = Infinity \/ b = Infinity THEN Infinity ELSE a + b

RECURSIVE SumClose(_)
SumClose(s) == IF s = <<>> THEN 0 ELSE Plus(SumClose(Front(s)), Last(s).close)

\* Array.prototype.slice(start, end) for 0 <= start: the elements at the
\* zero-based positions start .. end - 1 that exist
JsSlice(a, start, end) == SubSeq(a, start + 1, Min(end, Len(a)))

\* avg of calculateSMA: a mean is carried as <<sum, number of terms>>
avg(data) == <<SumClose(data), Len(data)>>

RECURSIVE SMALoop(_, _, _, _)
\* the for loop of calculateSMA from the zero-based index i on
SMALoop(data, count, i, result) ==
    IF i < Len(data)
    THEN SMALoop(data, count, i + 1,
                 Append(result, [time  |-> data[i + 1].time,
                                 value |-> avg(JsSlice(data, i - count + 1, i + 1))]))
    ELSE result

\* an average whose loop starts one candle late
calculateSMALate(data, count) == SMALoop(data, count, count, <<>>)

\* calculateSMA(data, count) for count >= 1
calculateSMA(data, count) == SMALoop(data, count, count - 1, <<>>)

\* The numbers of calculateRSI are non-negative: a finite one is carried as
\* the fraction <<numerator, denominator>> with a positive denominator,
\* Infinity as <<1, 0>> and NaN as <<>>.

\* a / b for finite a and b: x / 0 is Infinity for x > 0 and NaN for x = 0
Quotient(a, b) ==
    IF b[1] = 0
    THEN IF a[1] = 0 THEN <<>> ELSE <<1, 0>>
    ELSE <<a[1] * b[2], a[2] * b[1]>>

\* 1 + x
OnePlus(x) ==
    IF x = <<>> THEN <<>>
    ELSE IF x[2] = 0 THEN x
    ELSE <<x[2] + x[1], x[2]>>

\* 100 / x for x >= 1
HundredOver(x) ==
    IF x = <<>> THEN <<>>
    ELSE IF x[2] = 0 THEN <<0, 1>>
    ELSE <<100 * x[2], x[1]>>

\* 100 - y for finite y
HundredMinus(y) ==
    IF y = <<>> THEN <<>>
    ELSE <<100 * y[2] - y[1], y[2]>>

\* (average * (count - 1) + term) / count
Smoothed(average, term, count) ==
    <<average[1] * (count - 1) + term * average[2], average[2] * count>>

RECURSIVE FirstRun(_, _, _, _, _)
\* the "First run" loop from the zero-based index i on; data[i] beyond the
\* end is undefined and reading its close throws a TypeError
FirstRun(data, count, i, gains, losses) ==
    IF i > count THEN [thrown |-> FALSE, gains |-> gains, losses |-> losses]
    ELSE IF i + 1 > Len(data) THEN [thrown |-> TRUE, gains |-> gains, losses |-> losses]
    ELSE LET change == data[i + 1].close - data[i].close
         IN  IF change > 0
             THEN FirstRun(data, count, i + 1, gains + change, losses)
             ELSE FirstRun(data, count, i + 1, gains, losses - change)

RECURSIVE RSILoop(_, _, _, _, _, _)
\* the second loop of calculateRSI from the zero-based index i on
RSILoop(data, count, i, avgGain, avgLoss, result) ==
    IF i < Len(data)
    THEN LET change == data[i + 1].close - data[i].close
             gain == IF change > 0 THEN change ELSE 0
             loss == IF change < 0 THEN -change ELSE 0
             nextGain == Smoothed(avgGain, gain, count)
             nextLoss == Smoothed(avgLoss, loss, count)
             rs == Quotient(nextGain, nextLoss)
             rsi == HundredMinus(HundredOver(OnePlus(rs)))
         IN  RSILoop(data, count, i + 1, nextGain, nextLoss,
                     Append(result, [time |-> data[i + 1].time, value |-> rsi]))
    ELSE result

\* calculateRSI(data, count) for count >= 1: whether it throws, and the
\* series it returns otherwise
calculateRSI(data, count) ==
    IF Len(data) < count THEN [thrown |-> FALSE, result |-> <<>>]
    ELSE LET first == FirstRun(data, count, 1, 0, 0)
         IN  IF first.thrown THEN [thrown |-> TRUE, result |-> <<>>]
             ELSE [thrown |-> FALSE,
                   result |-> RSILoop(data, count, count + 1,
                                      <<first.gains, count>>, <<first.losses, count>>,
                                      <<>>)]

---------------------------------------------------------------------------
(* The displayed series *)

AreaPoint(d) == [time |-> d.time, value |-> d.close]

VolumePoint(c) ==
    [time |-> c.time, value |-> OrElse(c.volume, 0),
     color |-> IF c.close >= c.open THEN "up" ELSE "down"]

\* what refreshChartData hands to the main series' setData
MainPoints(kind, data) ==
    IF kind = "candle" THEN data
    ELSE [i \in 1..Len(data) |-> AreaPoint(data[i])]

VolumePoints(data) == [i \in 1..Len(data) |-> VolumePoint(data[i])]

MaPoints(data) ==
    [ma20  |-> calculateSMA(data, 20),
     ma50  |-> calculateSMA(data, 50),
     ma200 |-> calculateSMA(data, 200)]

\* series.update(point) of the chart library: amends the last point or
\* appends a later one; an earlier point is refused (the library throws,
\* and the catch of socket.onmessage swallows it)
SeriesUpdate(points, p) ==
    IF points = <<>> \/ p.time > Last(points).time THEN Append(points, p)
    ELSE IF p.time = Last(points).time THEN Append(Front(points), p)
    ELSE points

---------------------------------------------------------------------------
(* Live ticks *)

\* bucketStart of updateCurrentInRef; NaN when intervalSeconds is NaN or 0,
\* and when the timestamp is Infinity (Infinity % n is NaN)
BucketStart(timestamp, intv) ==
    LET intervalSeconds == parseInterval(intv)
        incomingSeconds == timestamp \div 1000
    IN  IF intervalSeconds = <<>> \/ intervalSeconds[1] = 0 \/ timestamp = Infinity
        THEN <<>>
        ELSE << incomingSeconds - JsRem(incomingSeconds, intervalSeconds[1]) >>

\* bucketStart > lastTime, false for NaN; bucketStart is a whole number of
\* seconds, lastTime a time of a candle
IsNewBucket(bucketStart, lastTime) ==
    bucketStart # <<>> /\ Seconds(bucketStart[1]) > lastTime

\* a new candle opened at the raw tick price instead of the previous close
NewCandleTickOpen(lastCandle, bucketStart, price) ==
    Candle(Seconds(bucketStart), price, price, price, price, 0)

\* updatedCandle of the "New Candle" branch
NewCandle(lastCandle, bucketStart, price) ==
    LET smoothOpen == lastCandle.close
    IN  Candle(Seconds(bucketStart), smoothOpen, Max(smoothOpen, price),
               Min(smoothOpen, price), price, 0)

\* an amend that forgets to lower the low
AmendedCandleKeepLow(lastCandle, price) ==
    [lastCandle EXCEPT !.high = Max(lastCandle.high, price), !.close = price]

\* an amend that resets the volume as a new candle does
AmendedCandleZeroVolume(lastCandle, price) ==
    [lastCandle EXCEPT !.high = Max(lastCandle.high, price),
                       !.low = Min(lastCandle.low, price),
                       !.close = price,
                       !.volume = 0]

\* updatedCandle of the "Update Existing" branch
AmendedCandle(lastCandle, price) ==
    [lastCandle EXCEPT !.high = Max(lastCandle.high, price),
                       !.low = Min(lastCandle.low, price),
                       !.close = price,
                       !.volume = OrElse(lastCandle.volume, 0)]

\* an aggregator that keeps a sliding window: a new candle pushes the oldest
\* one out
updateCurrentInRefWindow(data, main, kind, price, timestamp, intv) ==
    IF Len(data) = 0 THEN [data |-> data, main |-> main]
    ELSE LET bucketStart == BucketStart(timestamp, intv)
             lastCandle == Last(data)
             isNew == IsNewBucket(bucketStart, lastCandle.time)
             updatedCandle == IF isNew
                              THEN Candle(Seconds(bucketStart[1]), lastCandle.close,
                                          Max(lastCandle.close, price),
                                          Min(lastCandle.close, price), price, 0)
                              ELSE [lastCandle EXCEPT !.high = Max(lastCandle.high, price),
                                                      !.low = Min(lastCandle.low, price),
                                                      !.close = price]
         IN  [data |-> IF isNew
                       THEN Append(Tail(data), updatedCandle)
                       ELSE [data EXCEPT ![Len(data)] = updatedCandle],
              main |-> main]

\* updateCurrentInRef(price, timestamp): chartDataRef.current (data) and the
\* points of the main series (main) after it, where kind is the main series
\* present and intv the interval the closure holds
updateCurrentInRef(data, main, kind, price, timestamp, intv) ==
    IF Len(data) = 0 THEN [data |-> data, main |-> main]
    ELSE LET bucketStart == BucketStart(timestamp, intv)
             lastCandle == Last(data)
             isNew == IsNewBucket(bucketStart, lastCandle.time)
             updatedCandle == IF isNew
                              THEN NewCandle(lastCandle, bucketStart[1], price)
                              ELSE AmendedCandle(lastCandle, price)
         IN  [data |-> IF isNew
                       THEN Append(data, updatedCandle)
                       ELSE [data EXCEPT ![Len(data)] = updatedCandle],
              main |-> IF kind = "none" THEN main
                       ELSE SeriesUpdate(main, IF kind = "candle" THEN updatedCandle
                                               ELSE AreaPoint(updatedCandle))]

\* whether socket.onmessage passes the tick on: if (price && ts)
TickAccepted(price, ts) == Truthy(price) /\ Truthy(ts)

\* a handler that seeds the series from the first tick when it is empty
onmessageSeed(data, main, kind, price, ts, intv) ==
    IF TickAccepted(price, ts)
    THEN IF Len(data) > 0
         THEN updateCurrentInRef(data, main, kind, price, ts, intv)
         ELSE [data |-> <<Candle(Seconds(BucketStart(ts, intv)[1]),
                                 price, price, price, price, 0)>>,
               main |-> main]
    ELSE [data |-> data, main |-> main]

\* what socket.onmessage does to the series and the main points for an
\* 'update' message carrying price and ts
onmessage(data, main, kind, price, ts, intv) ==
    IF TickAccepted(price, ts) /\ Len(data) > 0
    THEN updateCurrentInRef(data, main, kind, price, ts, intv)
    ELSE [data |-> data, main |-> main]

---------------------------------------------------------------------------
(* Inputs: the historical responses and the feed messages *)

\* candles the server holds, times in epoch milliseconds: two for the bucket
\* at 0 and one for the next bucket of a timeframe of d seconds
RawA == Candle(0, 100, 105, 98, 102, 7)
RawB == Candle(0, 101, 104, 99, 100, 3)
RawC(d) == Candle(d * 1000, 103, 109, 101, 108, 5)

\* the data.candles lists a response to a request for the timeframe intv may
\* carry: empty, one candle, unsorted, duplicated, unsorted and duplicated;
\* every candle is aligned to the timeframe
HistoryLists(intv) ==
    LET d == parseInterval(intv)[1]
    IN  { <<>>, <<RawA>>, <<RawC(d), RawA>>, <<RawB, RawA>>, <<RawB, RawC(d), RawA>> }

\* outcomes of one fetch: the fetch or res.json() throws, the body has no
\* candles array, or the body carries a list of candles
Bodies(intv) ==
    { [kind |-> "error", candles |-> <<>>],
      [kind |-> "nocandles", candles |-> <<>>] }
    \cup { [kind |-> "candles", candles |-> c] : c \in HistoryLists(intv) }

\* tickerData.last || tickerData.price of a feed message; 0 is a falsy price
Prices == {0, 97, 110}

\* tickerData.timestamp of a feed message, epoch milliseconds; 0 is falsy
Stamps == {0, 1800000, 3700000, 15000000}

NoRequest == [id |-> 0, sym |-> "", intv |-> <<>>]

Event(op, price, ts) == [op |-> op, price |-> price, ts |-> ts]

---------------------------------------------------------------------------
(* The main series of the chart *)

\* candlestickSeriesRef.current and areaSeriesRef.current (0 is null), the
\* main series the chart holds, and the number of series created so far
NoSeries == [candlestickSeriesRef |-> 0, areaSeriesRef |-> 0, onChart |-> {}, seq |-> 0]

\* a removal that forgets the area series
RemoveMainSeriesCandleOnly(refs) ==
    IF refs.candlestickSeriesRef # 0
    THEN [refs EXCEPT !.onChart = @ \ {refs.candlestickSeriesRef},
                      !.candlestickSeriesRef = 0]
    ELSE refs

\* the "Remove existing main series" part of the chart type effect
RemoveMainSeries(refs) ==
    LET r1 == IF refs.candlestickSeriesRef # 0
              THEN [refs EXCEPT !.onChart = @ \ {refs.candlestickSeriesRef},
                                !.candlestickSeriesRef = 0]
              ELSE refs
    IN  IF r1.areaSeriesRef # 0
        THEN [r1 EXCEPT !.onChart = @ \ {r1.areaSeriesRef}, !.areaSeriesRef = 0]
        ELSE r1

\* the chart type effect on the refs: the existing main series is removed,
\* a series of the type is added
ChartTypeEffect(refs, type) ==
    LET r == RemoveMainSeries(refs)
        series == r.seq + 1
    IN  IF type = "candle"
        THEN [r EXCEPT !.candlestickSeriesRef = series,
                       !.onChart = @ \cup {series}, !.seq = series]
        ELSE [r EXCEPT !.areaSeriesRef = series,
                       !.onChart = @ \cup {series}, !.seq = series]

\* candlestickSeriesRef.current || areaSeriesRef.current
TargetSeries(refs) ==
    IF refs.candlestickSeriesRef # 0 THEN refs.candlestickSeriesRef
    ELSE refs.areaSeriesRef

\* which main series refreshChartData and updateCurrentInRef write to: the
\* candlestick series if its ref is set, else the area series if its ref is
MainKindOf(refs) ==
    IF refs.candlestickSeriesRef # 0 THEN "candle"
    ELSE IF refs.areaSeriesRef # 0 THEN "area"
    ELSE "none"

---------------------------------------------------------------------------
(* State machine *)

\* new WebSocket(wsUrl) with its onmessage, whose closure holds the interval
\* of the render that ran the effect
NewSocket(id, sym, intv) == [id |-> id, sym |-> sym, intv |-> intv, st |-> "CONNECTING"]

\* the mount: chart and series are created, fetchData is called, the socket
\* is opened
Mounted ==
    /\ mounted = TRUE
    /\ symbol = "BTC/USDT"
    /\ interval = Tok1h
    /\ chartType = "candle"
    /\ isLoading = TRUE
    /\ currentPrice = <<>>
    /\ chartDataRef = <<>>
    /\ inflight = {[id |-> 1, sym |-> "BTC/USDT", intv |-> Tok1h]}
    /\ reqSeq = 1
    /\ seriesReq = NoRequest
    /\ seriesRaw = <<>>
    /\ sockets = {NewSocket(1, "BTC/USDT", Tok1h)}
    /\ wsRef = 1
    /\ sockSeq = 1
    /\ seriesRefs = ChartTypeEffect(NoSeries, "candle")
    /\ mainData = <<>>
    /\ volumeData = <<>>
    /\ maData = MaPoints(<<>>)
    /\ chartColors = [upColor |-> "#26a69a", downColor |-> "#ef5350",
                      bg |-> "#0a0a0a", grid |-> "#1e222d"]
    /\ activeTool = "cursor"
    /\ activeToolRef = "cursor"
    /\ priceLinesRef = <<>>
    /\ chartLines = {}
    /\ lineSeq = 0
    /\ sinceSelect = 0
    /\ lastEv = Event("mount", 0, 0)
    /\ nEvents = 0

Init ==
    /\ Mounted
    /\ fnIn = <<>>
    /\ fnOut = <<>>

\* fetchData up to its await: setIsLoading(true) and the request
IssueFetch(sym, intv) ==
    /\ isLoading' = TRUE
    /\ reqSeq' = reqSeq + 1
    /\ inflight' = inflight \cup {[id |-> reqSeq + 1, sym |-> sym, intv |-> intv]}

\* the cleanup of the effect that created the socket id: the socket is
\* closed if its readyState is OPEN
CleanedUp(socks, id) == {s \in socks : ~(s.id = id /\ s.st = "OPEN")}

\* an effect that leaves the socket of wsRef as it is
RefClosedNever(socks, ref) == socks

\* if (wsRef.current) wsRef.current.close(): the socket stops delivering
\* messages, whatever its readyState
RefClosed(socks, ref) == {s \in socks : s.id # ref}

\* the WebSocket effect runs again: the cleanup of its previous run, then
\* the socket of wsRef is closed and a new one is created
ReopenSocket(sym, intv) ==
    /\ sockets' = RefClosed(CleanedUp(sockets, wsRef), wsRef)
                      \cup {NewSocket(sockSeq + 1, sym, intv)}
    /\ wsRef' = sockSeq + 1
    /\ sockSeq' = sockSeq + 1

\* onIntervalChange: setInterval(tok), then the effects that depend on it
SetInterval(tok) ==
    /\ mounted
    /\ tok # interval
    /\ nEvents < MaxEvents
    /\ nEvents' = nEvents + 1
    /\ interval' = tok
    /\ IssueFetch(symbol, tok)
    /\ ReopenSocket(symbol, tok)
    /\ lastEv' = Event("setInterval", 0, 0)
    /\ UNCHANGED <<mounted, symbol, chartType, currentPrice, chartDataRef, seriesReq,
                   seriesRaw, seriesRefs, mainData, volumeData, maData,
                   drawVars, fnVars>>

\* the symbol prop changes (setSymbol of ForgePage), then the effects
SetSymbol(sym) ==
    /\ mounted
    /\ sym # symbol
    /\ nEvents < MaxEvents
    /\ nEvents' = nEvents + 1
    /\ symbol' = sym
    /\ IssueFetch(sym, interval)
    /\ ReopenSocket(sym, interval)
    /\ lastEv' = Event("setSymbol", 0, 0)
    /\ UNCHANGED <<mounted, interval, chartType, currentPrice, chartDataRef, seriesReq,
                   seriesRaw, seriesRefs, mainData, volumeData, maData,
                   drawVars, fnVars>>

\* the display after refreshChartData(data) with main series kind
Refreshed(kind, data, old) ==
    IF Len(data) = 0 THEN old
    ELSE [main |-> IF kind = "none" THEN old.main ELSE MainPoints(kind, data),
          volume |-> VolumePoints(data),
          ma |-> MaPoints(data)]

\* a chart type effect that leaves the new main series empty
RecreateMainSeriesEmpty(t) ==
    /\ seriesRefs' = ChartTypeEffect(seriesRefs, t)
    /\ chartLines' = {l \in chartLines : l.series \in seriesRefs'.onChart}
    /\ mainData' = <<>>
    /\ UNCHANGED <<volumeData, maData>>

\* the chart type effect for the type t: the main series is removed and
\* created anew, filled from chartDataRef when that is not empty; the price
\* lines of a removed series leave the chart with it
RecreateMainSeries(t) ==
    /\ seriesRefs' = ChartTypeEffect(seriesRefs, t)
    /\ chartLines' = {l \in chartLines : l.series \in seriesRefs'.onChart}
    /\ LET shown == Refreshed(MainKindOf(seriesRefs'), chartDataRef,
                              [main |-> <<>>, volume |-> volumeData, ma |-> maData])
       IN  /\ mainData' = shown.main
           /\ volumeData' = shown.volume
           /\ maData' = shown.ma

\* onChartTypeChange: setChartType(t), then the chart type effect and the
\* WebSocket effect
SetChartType(t) ==
    /\ mounted
    /\ t # chartType
    /\ nEvents < MaxEvents
    /\ nEvents' = nEvents + 1
    /\ chartType' = t
    /\ RecreateMainSeries(t)
    /\ ReopenSocket(symbol, interval)
    /\ lastEv' = Event("setChartType", 0, 0)
    /\ UNCHANGED <<mounted, symbol, interval, isLoading, currentPrice, chartDataRef,
                   inflight, reqSeq, seriesReq, seriesRaw, chartColors,
                   activeTool, activeToolRef, priceLinesRef, lineSeq, sinceSelect,
                   fnVars>>

\* whether fetchData assigns chartDataRef when the response of r arrives
AcceptsResponse(r, body) == body.kind = "candles"

\* fetchData from its await on, for the request r and its outcome
FetchDone(r, body) ==
    /\ r \in inflight
    /\ inflight' = inflight \ {r}
    /\ isLoading' = IF mounted THEN FALSE ELSE isLoading
    /\ IF AcceptsResponse(r, body)
       THEN LET uniqueData == loadHistory(body.candles)
                old == [main |-> mainData, volume |-> volumeData, ma |-> maData]
                shown == IF mounted
                         THEN Refreshed(MainKindOf(seriesRefs), uniqueData, old)
                         ELSE old
            IN  /\ chartDataRef' = uniqueData
                /\ seriesReq' = r
                /\ seriesRaw' = body.candles
                /\ mainData' = shown.main
                /\ volumeData' = shown.volume
                /\ maData' = shown.ma
       ELSE UNCHANGED <<chartDataRef, seriesReq, seriesRaw, mainData, volumeData, maData>>
    /\ lastEv' = Event("fetchDone", 0, 0)
    /\ UNCHANGED <<mounted, symbol, interval, chartType, currentPrice, reqSeq, sockets,
                   wsRef, sockSeq, seriesRefs, drawVars, fnVars, nEvents>>

\* the component unmounts: the cleanup of the WebSocket effect closes its
\* socket if that is OPEN, the cleanup of the chart effect removes the chart
\* with its series and price lines.  Handlers that run later find no chart
\* to draw on.
Unmount ==
    /\ mounted
    /\ mounted' = FALSE
    /\ sockets' = CleanedUp(sockets, wsRef)
    /\ seriesRefs' = [seriesRefs EXCEPT !.onChart = {}]
    /\ chartLines' = {}
    /\ mainData' = <<>>
    /\ volumeData' = <<>>
    /\ maData' = MaPoints(<<>>)
    /\ lastEv' = Event("unmount", 0, 0)
    /\ UNCHANGED <<symbol, interval, chartType, isLoading, currentPrice, chartDataRef,
                   inflight, reqSeq, seriesReq, seriesRaw, wsRef, sockSeq,
                   chartColors, activeTool, activeToolRef, priceLinesRef, lineSeq,
                   sinceSelect, fnVars, nEvents>>

\* the connection of a socket is established
SocketOpen(s) ==
    /\ s \in sockets
    /\ s.st = "CONNECTING"
    /\ sockets' = (sockets \ {s}) \cup {[s EXCEPT !.st = "OPEN"]}
    /\ lastEv' = Event("open", 0, 0)
    /\ UNCHANGED <<mounted, symbol, interval, chartType, isLoading, currentPrice, chartDataRef,
                   inflight, reqSeq, seriesReq, seriesRaw, wsRef, sockSeq,
                   seriesRefs, mainData, volumeData, maData, drawVars, fnVars,
                   nEvents>>

\* socket.onmessage of s for an 'update' message with the given price and
\* timestamp
OnMessage(s, price, ts) ==
    /\ s \in sockets
    /\ s.st = "OPEN"
    /\ nEvents < MaxEvents
    /\ nEvents' = nEvents + 1
    /\ currentPrice' = IF mounted /\ TickAccepted(price, ts)
                       THEN <<price>>
                       ELSE currentPrice
    /\ LET after == onmessage(chartDataRef, mainData,
                              IF mounted THEN MainKindOf(seriesRefs) ELSE "none",
                              price, ts, s.intv)
       IN  /\ chartDataRef' = after.data
           /\ mainData' = after.main
    /\ lastEv' = Event("message", price, ts)
    /\ UNCHANGED <<mounted, symbol, interval, chartType, isLoading, inflight, reqSeq,
                   seriesReq, seriesRaw, sockets, wsRef, sockSeq, seriesRefs,
                   volumeData, maData, drawVars, fnVars>>

Next ==
    \/ \E tok \in Timeframes : SetInterval(tok)
    \/ \E sym \in Symbols : SetSymbol(sym)
    \/ \E t \in {"candle", "area"} : SetChartType(t)
    \/ \E r \in inflight : \E body \in Bodies(r.intv) : FetchDone(r, body)
    \/ \E s \in sockets : SocketOpen(s)
    \/ \E s \in sockets : \E price \in Prices : \E ts \in Stamps : OnMessage(s, price, ts)

Spec == Init /\ [][Next]_vars

---------------------------------------------------------------------------
(* Drawing tools *)

\* the tools of the toolbar
DrawingTools == {"cursor", "trendline", "horizontal_line", "brush", "text"}

\* the colour inputs of the settings: Bullish Candle, Bearish Candle, Grid
\* Lines, Background
ColorFields == {"upColor", "downColor", "grid", "bg"}

\* values of a colour input
Colors == {"#26a69a", "#000000"}

\* the times of the bars of the main series
BarTimes(main) == {main[i].time : i \in 1..Len(main)}

\* what a click on the chart hands to the handler: whether param.point is
\* set, param.time (<<>> is undefined) and what
\* coordinateToPrice(param.point.y) returns (<<>> is null).  The chart sets
\* param.time only where the click meets a bar of the data, to the time of
\* that bar, and never without param.point.
ClickParams(main) ==
    { [point |-> FALSE, time |-> <<>>, price |-> <<>>],
      [point |-> TRUE, time |-> <<>>, price |-> <<101>>] }
    \cup { [point |-> TRUE, time |-> <<t>>, price |-> p] :
               t \in BarTimes(main), p \in {<<>>, <<0>>, <<101>>, <<110>>} }

ClickEvent(param) == [op |-> "click", param |-> param]

\* a Clear All, with the number of lines the list held and the number of
\* lines the chart displayed when it was pressed
ClearEvent(listed, shown) == [op |-> "clearAll", listed |-> listed, shown |-> shown]

\* a price line of the chart library: its id, its price
PriceLine(id, price) == [id |-> id, price |-> price]

\* onToolChange(tool): setActiveTool(tool), and the effect of the render it
\* causes copies the tool into activeToolRef before another handler runs
SelectTool(tool) ==
    /\ mounted
    /\ tool # activeTool
    /\ nEvents < MaxDrawEvents
    /\ nEvents' = nEvents + 1
    /\ activeTool' = tool
    /\ activeToolRef' = tool
    /\ sinceSelect' = 0
    /\ lastEv' = Event("selectTool", 0, 0)
    /\ UNCHANGED <<mounted, symbol, interval, chartType, isLoading, currentPrice, chartDataRef,
                   inflight, reqSeq, seriesReq, seriesRaw, sockets, wsRef, sockSeq,
                   seriesRefs, mainData, volumeData, maData, chartColors,
                   priceLinesRef, chartLines, lineSeq, fnVars>>

\* a handler that draws a line for every tool but the cursor
CreatesLineAnyTool(currentTool, refs, param) ==
    /\ currentTool # "cursor" /\ param.point
    /\ param.time # <<>> /\ Truthy(param.time[1])
    /\ TargetSeries(refs) # 0
    /\ param.price # <<>> /\ Truthy(param.price[1])

\* whether the click handler reaches createPriceLine
CreatesLine(currentTool, refs, param) ==
    /\ currentTool # "cursor" /\ param.point
    /\ param.time # <<>> /\ Truthy(param.time[1])
    /\ TargetSeries(refs) # 0
    /\ param.price # <<>> /\ Truthy(param.price[1])
    /\ currentTool = "horizontal_line"

\* a handler that draws the line and leaves the tool selected
ClickToolKept(param) ==
    /\ mounted
    /\ param \in ClickParams(mainData)
    /\ nEvents < MaxDrawEvents
    /\ nEvents' = nEvents + 1
    /\ IF CreatesLine(activeToolRef, seriesRefs, param)
       THEN LET line == PriceLine(lineSeq + 1, param.price[1])
            IN  /\ chartLines' = chartLines \cup
                       {[line |-> line.id, series |-> TargetSeries(seriesRefs)]}
                /\ priceLinesRef' = Append(priceLinesRef, line)
                /\ lineSeq' = lineSeq + 1
                /\ sinceSelect' = sinceSelect + 1
       ELSE UNCHANGED <<chartLines, priceLinesRef, lineSeq, sinceSelect>>
    /\ lastEv' = ClickEvent(param)
    /\ UNCHANGED <<mounted, symbol, interval, chartType, isLoading, currentPrice, chartDataRef,
                   inflight, reqSeq, seriesReq, seriesRaw, sockets, wsRef, sockSeq,
                   seriesRefs, mainData, volumeData, maData, chartColors, activeTool,
                   activeToolRef, fnVars>>

\* the handler of chart.subscribeClick; it reads the tool from activeToolRef
\* and resets the state with setActiveTool('cursor'), which the effect of the
\* render copies into activeToolRef
Click(param) ==
    /\ mounted
    /\ param \in ClickParams(mainData)
    /\ nEvents < MaxDrawEvents
    /\ nEvents' = nEvents + 1
    /\ IF CreatesLine(activeToolRef, seriesRefs, param)
       THEN LET line == PriceLine(lineSeq + 1, param.price[1])
            IN  /\ chartLines' = chartLines \cup
                       {[line |-> line.id, series |-> TargetSeries(seriesRefs)]}
                /\ priceLinesRef' = Append(priceLinesRef, line)
                /\ lineSeq' = lineSeq + 1
                /\ sinceSelect' = sinceSelect + 1
                /\ activeTool' = "cursor"
                /\ activeToolRef' = "cursor"
       ELSE UNCHANGED <<chartLines, priceLinesRef, lineSeq, sinceSelect, activeTool,
                        activeToolRef>>
    /\ lastEv' = ClickEvent(param)
    /\ UNCHANGED <<mounted, symbol, interval, chartType, isLoading, currentPrice, chartDataRef,
                   inflight, reqSeq, seriesReq, seriesRaw, sockets, wsRef, sockSeq,
                   seriesRefs, mainData, volumeData, maData, chartColors, fnVars>>

\* a clearing that leaves the lines on their series
RemovePriceLinesNone(onSeries, lines, refs) == onSeries

\* the forEach of onClearAll: every line of the list is removed from the
\* series of candlestickSeriesRef and of areaSeriesRef, where set
RemovePriceLines(onSeries, lines, refs) ==
    LET ids == {lines[i].id : i \in 1..Len(lines)}
        targets == {refs.candlestickSeriesRef, refs.areaSeriesRef} \ {0}
    IN  {l \in onSeries : ~(l.line \in ids /\ l.series \in targets)}

\* onClearAll of the toolbar
ClearAll ==
    /\ mounted
    /\ nEvents < MaxDrawEvents
    /\ nEvents' = nEvents + 1
    /\ chartLines' = RemovePriceLines(chartLines, priceLinesRef, seriesRefs)
    /\ priceLinesRef' = <<>>
    /\ activeTool' = "cursor"
    /\ activeToolRef' = "cursor"
    /\ lastEv' = ClearEvent(Len(priceLinesRef), Cardinality(chartLines))
    /\ UNCHANGED <<mounted, symbol, interval, chartType, isLoading, currentPrice, chartDataRef,
                   inflight, reqSeq, seriesReq, seriesRaw, sockets, wsRef, sockSeq,
                   seriesRefs, mainData, volumeData, maData, chartColors,
                   lineSeq, sinceSelect, fnVars>>

\* the colour input of the settings: setChartColors, then the chart type
\* effect
SetChartColors(field, c) ==
    /\ mounted
    /\ c # chartColors[field]
    /\ nEvents < MaxEvents
    /\ nEvents' = nEvents + 1
    /\ chartColors' = [chartColors EXCEPT ![field] = c]
    /\ RecreateMainSeries(chartType)
    /\ lastEv' = Event("setChartColors", 0, 0)
    /\ UNCHANGED <<mounted, symbol, interval, chartType, isLoading, currentPrice, chartDataRef,
                   inflight, reqSeq, seriesReq, seriesRaw, sockets, wsRef, sockSeq,
                   activeTool, activeToolRef, priceLinesRef, lineSeq, sinceSelect,
                   fnVars>>

\* history, chart type, colours and the drawing tools, without the feed
NextDraw ==
    \/ \E r \in inflight : \E body \in Bodies(r.intv) : FetchDone(r, body)
    \/ \E t \in {"candle", "area"} : SetChartType(t)
    \/ \E field \in ColorFields : \E c \in Colors : SetChartColors(field, c)
    \/ \E tool \in DrawingTools : SelectTool(tool)
    \/ \E param \in ClickParams(mainData) : Click(param)
    \/ ClearAll

SpecDraw == Init /\ [][NextDraw]_vars

---------------------------------------------------------------------------
(* loadHistory applied on its own: to a list, to the list followed by itself,
   and to the list with every entry doubled in place *)

\* the lists of at most n elements of S
ListsUpTo(S, n) == UNION {[1..k -> S] : k \in 0..n}

\* candles of a response: two for the time 0 and one for the time 3600
LoadCandles == {RawA, RawB, RawC(3600)}

Twice(list) == list \o list

DoubledInPlace(list) == [i \in 1..(2 * Len(list)) |-> list[(i + 1) \div 2]]

NotApplied == [plain |-> <<>>, twice |-> <<>>, doubled |-> <<>>]

InitLoad ==
    /\ Mounted
    /\ fnIn \in ListsUpTo(LoadCandles, MaxList)
    /\ fnOut = NotApplied

LoadPlain ==
    /\ fnOut.plain = <<>>
    /\ fnOut' = [fnOut EXCEPT !.plain = <<loadHistory(fnIn)>>]
    /\ UNCHANGED <<appVars, fnIn>>

LoadTwice ==
    /\ fnOut.twice = <<>>
    /\ fnOut' = [fnOut EXCEPT !.twice = <<loadHistory(Twice(fnIn))>>]
    /\ UNCHANGED <<appVars, fnIn>>

LoadDoubled ==
    /\ fnOut.doubled = <<>>
    /\ fnOut' = [fnOut EXCEPT !.doubled = <<loadHistory(DoubledInPlace(fnIn))>>]
    /\ UNCHANGED <<appVars, fnIn>>

NextLoad == LoadPlain \/ LoadTwice \/ LoadDoubled

SpecLoad == InitLoad /\ [][NextLoad]_vars

---------------------------------------------------------------------------
(* History and live feed of one symbol and timeframe up to and beyond the
   unmount, with a history long enough for the moving averages, and with
   messages that lack a field or carry a number beyond the double range *)

\* twenty consecutive candles of a timeframe of d seconds, the shortest
\* list that has a 20-period average
RawSeries(d) == [i \in 1..20 |-> Candle((i - 1) * d * 1000, 100, 125, 98, 100 + i, 1)]

FeedBodies(intv) ==
    LET d == parseInterval(intv)[1]
    IN  { [kind |-> "error", candles |-> <<>>],
          [kind |-> "candles", candles |-> <<>>],
          [kind |-> "candles", candles |-> <<RawA>>],
          [kind |-> "candles", candles |-> RawSeries(d)] }

\* tickerData.last || tickerData.price of a feed message
FeedPrices == {Undefined, 97, Infinity}

\* tickerData.timestamp of a feed message: 70000000 lies in the bucket of
\* the twentieth one-hour candle
FeedStamps == {Undefined, 70000000, Infinity}

NextFeed ==
    \/ \E t \in {"candle", "area"} : SetChartType(t)
    \/ \E r \in inflight : \E body \in FeedBodies(r.intv) : FetchDone(r, body)
    \/ \E s \in sockets : SocketOpen(s)
    \/ \E s \in sockets : \E price \in FeedPrices : \E ts \in FeedStamps :
           OnMessage(s, price, ts)
    \/ Unmount

SpecFeed == Init /\ [][NextFeed]_vars

---------------------------------------------------------------------------
(* The indicators applied on their own *)

\* closes of the candles the indicators are applied to
Closes == {97, 100, 103}

\* hourly candles with the given closes
CandlesOf(closes) ==
    [i \in 1..Len(closes) |->
        Candle(Seconds((i - 1) * 3600), closes[i], closes[i], closes[i], closes[i], 1)]

InitInd ==
    /\ Mounted
    /\ \E closes \in ListsUpTo(Closes, MaxSeries) : \E count \in 1..MaxCount :
           fnIn = [data |-> CandlesOf(closes), count |-> count]
    /\ fnOut = [sma |-> <<>>, rsi |-> <<>>]

ApplySMA ==
    /\ fnOut.sma = <<>>
    /\ fnOut' = [fnOut EXCEPT !.sma = <<calculateSMA(fnIn.data, fnIn.count)>>]
    /\ UNCHANGED <<appVars, fnIn>>

ApplyRSI ==
    /\ fnOut.rsi = <<>>
    /\ fnOut' = [fnOut EXCEPT !.rsi = <<calculateRSI(fnIn.data, fnIn.count)>>]
    /\ UNCHANGED <<appVars, fnIn>>

NextInd == ApplySMA \/ ApplyRSI

SpecInd == InitInd /\ [][NextInd]_vars

---------------------------------------------------------------------------
(* parseInterval applied on its own *)

\* characters of the tokens: the digits and units of the toolbar's tokens,
\* the digit 0 and a character that is neither digit nor unit
TokenChars == {"0", "1", "4", "5", "m", "h", "d", "w", "x"}

InitToken ==
    /\ Mounted
    /\ fnIn \in ListsUpTo(TokenChars, MaxToken)
    /\ fnOut = [seconds |-> <<>>, applied |-> FALSE]

ApplyParseInterval ==
    /\ ~fnOut.applied
    /\ fnOut' = [seconds |-> parseInterval(fnIn), applied |-> TRUE]
    /\ UNCHANGED <<appVars, fnIn>>

NextToken == ApplyParseInterval

SpecToken == InitToken /\ [][NextToken]_vars

---------------------------------------------------------------------------
(* Vocabulary of the properties *)

\* duration in seconds of the selected timeframe
Duration == parseInterval(interval)[1]

\* floor(timestampSeconds / intervalSeconds) * intervalSeconds, as a time
FloorBucket(ts) == Seconds(((ts \div 1000) \div Duration) * Duration)

\* the step handles a feed message
MessageStep == lastEv'.op = "message" /\ nEvents' = nEvents + 1

\* the step handles a feed message that reaches applyTick (updateCurrentInRef)
ApplyTickStep == MessageStep /\ TickAccepted(lastEv'.price, lastEv'.ts)

\* the state follows a feed message that reached applyTick
AfterApplyTick == lastEv.op = "message" /\ TickAccepted(lastEv.price, lastEv.ts)

\* the step is the arrival of a historical response
FetchDoneStep == \E r \in inflight : r \notin inflight'

StrictlyIncreasing(data) ==
    \A i \in 1..(Len(data) - 1) : data[i].time < data[i + 1].time

WellFormed(c) ==
    /\ c.low <= c.open /\ c.open <= c.high
    /\ c.low <= c.close /\ c.close <= c.high

---------------------------------------------------------------------------
(* Properties *)

\* C1: the response of a fetch that a newer request has superseded is
\* discarded when it arrives: it does not change the candle series.
C1_StaleFetchDiscarded ==
    [][\A r \in inflight :
          (r \notin inflight' /\ r.id < reqSeq) => chartDataRef' = chartDataRef]_vars

\* C2: a tick whose bucket is earlier than the last candle's time is
\* rejected: the candle series is unchanged.
C2_LateTickRejected ==
    [][(ApplyTickStep /\ chartDataRef # <<>>
          /\ FloorBucket(lastEv'.ts) < Last(chartDataRef).time)
        => chartDataRef' = chartDataRef]_vars

\* C3: candle times in the series are strictly increasing, after any history
\* load and any ticks.
C3_TimesStrictlyIncreasing == StrictlyIncreasing(chartDataRef)

\* C3 witness: an unsorted list with a repeated time was loaded and a tick
\* has appended a third candle.
C3_Witness ==
    /\ AfterApplyTick
    /\ seriesRaw = <<RawB, RawC(3600), RawA>>
    /\ Len(chartDataRef) = 3

\* C4: every candle of the series has low <= open <= high and
\* low <= close <= high (the historical candles delivered satisfy it).
C4_OhlcBounds ==
    \A i \in 1..Len(chartDataRef) : WellFormed(chartDataRef[i])

\* C4 witness: a tick below the last candle's range has been applied and
\* lowered its low and close.
C4_Witness ==
    /\ AfterApplyTick
    /\ chartDataRef # <<>>
    /\ lastEv.price = 97
    /\ Last(chartDataRef).low = 97
    /\ Last(chartDataRef).close = 97
    /\ Last(chartDataRef).open >= 100

\* C5: a tick handled while the series still holds candles loaded for another
\* (symbol, timeframe) than the selected one does not change the series.
C5_NoTickOnForeignSeries ==
    [][(MessageStep /\ (seriesReq.sym # symbol \/ seriesReq.intv # interval))
        => chartDataRef' = chartDataRef]_vars

\* C6: a tick in a bucket later than the last candle appends exactly one
\* candle: time = bucketStart, open = the previous close, high and low the
\* max and min of open and price, close = price, volume = 0.
C6_NewBucketTick ==
    [][(ApplyTickStep /\ chartDataRef # <<>>
          /\ FloorBucket(lastEv'.ts) > Last(chartDataRef).time)
        => LET price == lastEv'.price
               open == Last(chartDataRef).close
           IN  chartDataRef' =
                 Append(chartDataRef,
                        Candle(FloorBucket(lastEv'.ts), open, Max(open, price),
                               Min(open, price), price, 0))]_vars

\* C6 witness: a tick has appended a candle several buckets after its
\* predecessor.
C6_Witness ==
    /\ AfterApplyTick
    /\ Len(chartDataRef) >= 2
    /\ Last(chartDataRef).time = FloorBucket(lastEv.ts)
    /\ Last(chartDataRef).time - chartDataRef[Len(chartDataRef) - 1].time
           > Seconds(2 * Duration)
    /\ Last(chartDataRef).volume = 0
    /\ Last(chartDataRef).open = chartDataRef[Len(chartDataRef) - 1].close

\* C7: a tick in the last candle's bucket replaces the last candle: high and
\* low absorb the price, close = price, time, open and volume are kept, and
\* the number of candles is unchanged.
C7_SameBucketTick ==
    [][(ApplyTickStep /\ chartDataRef # <<>>
          /\ FloorBucket(lastEv'.ts) = Last(chartDataRef).time)
        => LET price == lastEv'.price
               old == Last(chartDataRef)
           IN  chartDataRef' =
                 Append(Front(chartDataRef),
                        Candle(old.time, old.open, Max(old.high, price),
                               Min(old.low, price), price, old.volume))]_vars

\* C7 witness: a tick in the bucket of a loaded candle has raised its high;
\* the candle keeps its loaded volume.
C7_Witness ==
    /\ AfterApplyTick
    /\ chartDataRef # <<>>
    /\ FloorBucket(lastEv.ts) = Last(chartDataRef).time
    /\ Last(chartDataRef).volume # 0
    /\ lastEv.price = 110
    /\ Last(chartDataRef).high = 110
    /\ Last(chartDataRef).close = 110

\* C8: while the series is empty a feed message leaves it empty.
C8_TickBeforeHistory ==
    [][(MessageStep /\ chartDataRef = <<>>) => chartDataRef' = <<>>]_vars

\* C8 witness: a valid tick was handled after a fetch that delivered no
\* candles, and the series is empty.
C8_Witness ==
    /\ AfterApplyTick
    /\ currentPrice = <<lastEv.price>>
    /\ seriesReq # NoRequest
    /\ seriesRaw = <<>>
    /\ chartDataRef = <<>>

\* C9: a step that is not the arrival of a historical response keeps every
\* candle but the last and changes the candle count by 0 or +1; a candle that
\* is appended leaves all earlier candles as they were.
C9_TicksKeepHistory ==
    [][(~FetchDoneStep)
        => LET n == Len(chartDataRef)
           IN  /\ Len(chartDataRef') \in {n, n + 1}
               /\ \A i \in 1..(n - 1) : chartDataRef'[i] = chartDataRef[i]
               /\ (Len(chartDataRef') = n + 1 => Front(chartDataRef') = chartDataRef)]_vars

\* C9 witness: after two loaded candles a tick has appended a third; the
\* loaded candles are as they were loaded.
C9_Witness ==
    /\ AfterApplyTick
    /\ Len(chartDataRef) = 3
    /\ SubSeq(chartDataRef, 1, 2) = loadHistory(seriesRaw)

\* C10: every candle's time is a multiple of the selected timeframe's
\* duration (each response being aligned to the timeframe it was requested
\* for).
C10_BucketAlignment ==
    \A i \in 1..Len(chartDataRef) : chartDataRef[i].time % Seconds(Duration) = 0

\* the times of the candles of a list, in the series' seconds
TimesOf(list) == {ParseCandle(list[i]).time : i \in 1..Len(list)}

\* the candle of the time t that comes last in the list
LastSeen(list, t) ==
    LET k == CHOOSE i \in 1..Len(list) :
                 /\ ParseCandle(list[i]).time = t
                 /\ \A j \in (i + 1)..Len(list) : ParseCandle(list[j]).time # t
    IN  ParseCandle(list[k])

\* C11: loadHistory yields exactly one candle per distinct time of its
\* input, in ascending time order, and for a time that occurs several times
\* the candle kept is the one seen last in the input.
C11_LastSeenKept ==
    fnOut.plain # <<>> =>
        LET series == fnOut.plain[1]
        IN  /\ StrictlyIncreasing(series)
            /\ {series[i].time : i \in 1..Len(series)} = TimesOf(fnIn)
            /\ \A i \in 1..Len(series) : series[i] = LastSeen(fnIn, series[i].time)

\* C12: loading a list, the list followed by itself, and the list with every
\* entry doubled in place all yield the same series.
C12_LoadIdempotent ==
    \A a, b \in {fnOut.plain, fnOut.twice, fnOut.doubled} :
        (a # <<>> /\ b # <<>>) => a = b

\* C12 witness: the three loads were applied to an unsorted list that
\* repeats a time with different candles.
C12_Witness ==
    /\ fnOut.plain # <<>> /\ fnOut.twice # <<>> /\ fnOut.doubled # <<>>
    /\ fnIn = <<RawC(3600), RawA, RawB>>
    /\ fnOut.doubled = <<loadHistory(fnIn)>>
    /\ Len(fnOut.plain[1]) = 2

\* C13: after every change to the candle series, a history load or a tick
\* that appends or amends the last candle, the SMA-20, SMA-50 and SMA-200
\* series the chart holds are calculateSMA of the current candle series.
C13_IndicatorsFresh ==
    [][chartDataRef' # chartDataRef => maData' = MaPoints(chartDataRef')]_vars

\* C14: at most one WebSocket can deliver ticks, the one opened for the
\* current symbol and timeframe; once a newer socket exists no socket opened
\* earlier can deliver a tick.
C14_OneLiveSocket ==
    /\ Cardinality(sockets) <= 1
    /\ \A s \in sockets : s.id = wsRef /\ s.sym = symbol /\ s.intv = interval

\* C14 witness: after a timeframe change, the second socket has delivered a
\* tick that was applied to a loaded series.
C14_Witness ==
    /\ sockSeq >= 2
    /\ interval = Tok4h
    /\ \E s \in sockets : s.st = "OPEN" /\ s.id = 2
    /\ AfterApplyTick
    /\ chartDataRef # <<>>

\* the step is a click on the chart
ClickStep == lastEv'.op = "click" /\ nEvents' = nEvents + 1

\* the main series the chart displays
DisplayedSeries == TargetSeries(seriesRefs)

\* C15: a click while activeTool is horizontal-line, with a main series
\* present and a pixel position that resolves to a price, appends exactly one
\* annotation at that price, attached to the main series, and resets
\* activeTool to cursor.
C15_HorizontalLineCommit ==
    [][(/\ ClickStep
        /\ activeTool = "horizontal_line"
        /\ DisplayedSeries # 0
        /\ lastEv'.param.point /\ lastEv'.param.price # <<>>)
       => (/\ Len(priceLinesRef') = Len(priceLinesRef) + 1
           /\ Front(priceLinesRef') = priceLinesRef
           /\ Last(priceLinesRef').price = lastEv'.param.price[1]
           /\ chartLines' = chartLines \cup
                  {[line |-> Last(priceLinesRef').id, series |-> DisplayedSeries]}
           /\ Cardinality(chartLines') = Cardinality(chartLines) + 1
           /\ activeTool' = "cursor")]_vars

\* C16: clearAll, from any state reached by tool selections, clicks and
\* chart type switches, leaves the annotation list empty, no horizontal line
\* displayed, and activeTool cursor.
C16_ClearAll ==
    lastEv.op = "clearAll" =>
        /\ priceLinesRef = <<>>
        /\ chartLines = {}
        /\ activeTool = "cursor"

\* C16 witness: Clear All was pressed with two lines in the list, one of
\* them on a main series that a chart type switch had removed and one on the
\* displayed series, and left no line.
C16_Witness ==
    /\ lastEv.op = "clearAll"
    /\ lastEv.listed = 2
    /\ lastEv.shown = 1
    /\ chartType = "area"
    /\ seriesRefs.seq = 2
    /\ priceLinesRef = <<>>
    /\ chartLines = {}

\* C17: every line created by a click and not cleared since is attached to
\* the main series the chart displays, also after a chart type switch or a
\* colour change has recreated the main series.
C17_LinesFollowSeries ==
    \A i \in 1..Len(priceLinesRef) :
        [line |-> priceLinesRef[i].id, series |-> DisplayedSeries] \in chartLines

\* C18: once the chart type effect has run the chart holds exactly one main
\* series, candlestick or area, never both and never none, and its kind is
\* the selected chartType; a switch of the type removes the old series and
\* creates a new one.
C18_SingleMainSeries ==
    /\ [](/\ Cardinality(seriesRefs.onChart) = 1
          /\ DisplayedSeries \in seriesRefs.onChart
          /\ chartType = "candle" =>
                 seriesRefs.candlestickSeriesRef # 0 /\ seriesRefs.areaSeriesRef = 0
          /\ chartType = "area" =>
                 seriesRefs.areaSeriesRef # 0 /\ seriesRefs.candlestickSeriesRef = 0)
    /\ [][chartType' # chartType =>
             seriesRefs'.onChart \cap seriesRefs.onChart = {}]_vars

\* C18 witness: the type was switched to area and back to candle on a loaded
\* chart; the third main series is the only one.
C18_Witness ==
    /\ lastEv.op = "setChartType"
    /\ chartType = "candle"
    /\ seriesRefs.candlestickSeriesRef = 3
    /\ seriesRefs.onChart = {3}
    /\ mainData # <<>>

\* C19: a switch of the chart type leaves the candle series as it is, the
\* last candle amended by ticks included, and the new main series holds
\* exactly the points of that series.
C19_SwitchKeepsSeries ==
    [][(lastEv'.op = "setChartType" /\ chartType' # chartType)
       => (/\ chartDataRef' = chartDataRef
           /\ mainData' = MainPoints(chartType', chartDataRef))]_vars

\* C19 witness: the type was switched to area after a tick had amended the
\* loaded series; the area series holds its closes.
C19_Witness ==
    /\ lastEv.op = "setChartType"
    /\ chartType = "area"
    /\ chartDataRef # <<>>
    /\ chartDataRef # loadHistory(seriesRaw)
    /\ mainData = [i \in 1..Len(chartDataRef) |-> AreaPoint(chartDataRef[i])]

\* a message field that is absent, NaN or infinite
NotFinite(x) == x = Undefined \/ x = Infinity

\* C20: a tick message that lacks a price or a timestamp, or whose price or
\* timestamp is not finite, is dropped: the candle series and the current
\* price are unchanged.
C20_MalformedTickDropped ==
    [][(MessageStep /\ (NotFinite(lastEv'.price) \/ NotFinite(lastEv'.ts)))
       => (chartDataRef' = chartDataRef /\ currentPrice' = currentPrice)]_vars

RECURSIVE SumOf(_, _, _)
\* sum of the closes of the candles a .. b of data
SumOf(data, a, b) == IF a > b THEN 0 ELSE data[a].close + SumOf(data, a + 1, b)

\* C21: for a candle sequence of length L and a period n >= 1, calculateSMA
\* returns no point when L < n and otherwise L - n + 1 points, the k-th with
\* the time of candle k + n - 1 and the mean of the closes of candles
\* k .. k + n - 1.
C21_SmaShape ==
    fnOut.sma # <<>> =>
        LET points == fnOut.sma[1]
            L == Len(fnIn.data)
            n == fnIn.count
        IN  /\ L < n => points = <<>>
            /\ L >= n => Len(points) = L - n + 1
            /\ \A k \in 1..Len(points) :
                   /\ points[k].time = fnIn.data[k + n - 1].time
                   /\ points[k].value = <<SumOf(fnIn.data, k, k + n - 1), n>>

\* C21 witness: the 2-period average of four candles with different closes
\* has three points, the last the mean of the last two closes.
C21_Witness ==
    /\ fnOut.sma # <<>>
    /\ fnIn.count = 2
    /\ Len(fnIn.data) = 4
    /\ fnIn.data[3].close = 97 /\ fnIn.data[4].close = 103
    /\ Len(fnOut.sma[1]) = 3
    /\ fnOut.sma[1][3] = [time |-> Seconds(10800), value |-> <<200, 2>>]

\* C22: every value calculateRSI outputs is a defined number in [0, 100],
\* also when the average loss is zero; no NaN and no Infinity is emitted.
C22_RsiRange ==
    (fnOut.rsi # <<>> /\ ~fnOut.rsi[1].thrown) =>
        \A k \in 1..Len(fnOut.rsi[1].result) :
            LET v == fnOut.rsi[1].result[k].value
            IN  /\ v # <<>>
                /\ v[2] > 0
                /\ 0 <= v[1] /\ v[1] <= 100 * v[2]

\* C30: calculateRSI(data, n) raises no error for any input length, and
\* returns an empty series for every length up to and including n.
C30_RsiShortInput ==
    fnOut.rsi # <<>> =>
        /\ ~fnOut.rsi[1].thrown
        /\ Len(fnIn.data) <= fnIn.count => fnOut.rsi[1].result = <<>>

Units == {"m", "h", "d", "w"}

SecondsOf(unit) ==
    CASE unit = "m" -> 60 [] unit = "h" -> 3600 [] unit = "d" -> 86400
      [] unit = "w" -> 604800

RECURSIVE Magnitude(_)
\* the number a sequence of decimal digits denotes
Magnitude(digits) ==
    IF digits = <<>> THEN 0
    ELSE 10 * Magnitude(Front(digits)) + DigitVal(Last(digits))

\* the token is a positive integer followed by one unit character
IsMagnitudeUnit(tok) ==
    /\ Len(tok) >= 2
    /\ Last(tok) \in Units
    /\ \A i \in 1..(Len(tok) - 1) : tok[i] \in DigitChars
    /\ Magnitude(Front(tok)) > 0

\* C23: parseInterval maps a positive integer k followed by one unit
\* character to k*60 (m), k*3600 (h), k*86400 (d), k*604800 (w); the
\* toolbar's tokens resolve to 60, 300, 900, 3600, 14400, 86400, 604800.
C23_IntervalResolution ==
    /\ (fnOut.applied /\ IsMagnitudeUnit(fnIn)) =>
           fnOut.seconds = << Magnitude(Front(fnIn)) * SecondsOf(Last(fnIn)) >>
    /\ fnOut.applied =>
           /\ fnIn = Tok1m => fnOut.seconds = <<60>>
           /\ fnIn = Tok5m => fnOut.seconds = <<300>>
           /\ fnIn = Tok15m => fnOut.seconds = <<900>>
           /\ fnIn = Tok1h => fnOut.seconds = <<3600>>
           /\ fnIn = Tok4h => fnOut.seconds = <<14400>>
           /\ fnIn = Tok1d => fnOut.seconds = <<86400>>
           /\ fnIn = Tok1w => fnOut.seconds = <<604800>>

\* C23 witness: the token 15m was resolved to 900 seconds.
C23_Witness ==
    /\ fnOut.applied
    /\ fnIn = Tok15m
    /\ fnOut.seconds = <<900>>

\* the token is unparseable: it is not a positive integer followed by one
\* unit character
Unparseable(tok) == ~IsMagnitudeUnit(tok)

\* C24: every unparseable token (unknown unit, missing or non-numeric
\* magnitude, empty string) resolves to 3600 seconds, and parseInterval
\* returns a positive whole number of seconds for every token.
C24_IntervalFallback ==
    fnOut.applied =>
        /\ Unparseable(fnIn) => fnOut.seconds = <<3600>>
        /\ fnOut.seconds # <<>> /\ fnOut.seconds[1] > 0

\* C25: between one selection of the horizontal-line tool and the next tool
\* selection at most one annotation is created, also when a second click
\* arrives before the reset to cursor has reached activeToolRef.
C25_OneShotTool == sinceSelect <= 1

\* C25 witness: a line was drawn at 101 after the selection, and a second
\* click on a bar, at 110, came before any other selection and drew nothing.
C25_Witness ==
    /\ lastEv.op = "click"
    /\ lastEv.param = [point |-> TRUE, time |-> <<Seconds(3600)>>, price |-> <<110>>]
    /\ sinceSelect = 1
    /\ Len(priceLinesRef) = 1
    /\ priceLinesRef[1].price = 101

\* the click of the step leaves the annotations and the tool as they are
ClickIsNoOp ==
    /\ priceLinesRef' = priceLinesRef
    /\ chartLines' = chartLines
    /\ activeTool' = activeTool

\* C26: a click changes neither the annotation list nor activeTool unless
\* activeTool is horizontal-line, a main series exists and the position
\* resolves to a price.
C26_ClickNoOp ==
    [][(ClickStep /\ ~(/\ activeTool = "horizontal_line"
                       /\ DisplayedSeries # 0
                       /\ lastEv'.param.point /\ lastEv'.param.price # <<>>))
       => ClickIsNoOp]_vars

\* C26 witness: with the trendline tool selected a click on a bar at price
\* 101 left the list empty and the tool selected.
C26_Witness ==
    /\ lastEv.op = "click"
    /\ lastEv.param = [point |-> TRUE, time |-> <<Seconds(3600)>>, price |-> <<101>>]
    /\ activeTool = "trendline"
    /\ lineSeq = 0
    /\ priceLinesRef = <<>>

\* C27: after every handled event the points of the displayed main series
\* correspond one to one to the candle series (same times, same values); a
\* history load that empties the series empties the display.
C27_DisplayFollowsSeries ==
    mainData = MainPoints(MainKindOf(seriesRefs), chartDataRef)

\* C28: isLoading is true in every state in which a historical fetch is in
\* flight, and false once none is.
C28_LoadingFlag == isLoading <=> (inflight # {})

\* C29: every socket the chart opened is closed once the component has
\* unmounted, a socket that was still CONNECTING at the cleanup included,
\* and no tick is applied to the candle series after the unmount.  (No step
\* of the component closes a socket later than the cleanup, so a socket open
\* after it stays open.)
C29_SocketCleanup ==
    /\ [](~mounted => sockets = {})
    /\ [][(~mounted /\ MessageStep) => chartDataRef' = chartDataRef]_vars

====
